---- MODULE Spec2Model ----
(***************************************************************************)
(* CCXTInstrumentProvider (nautilus_trader/adapters/ccxt/providers.pyx):   *)
(* the provider's caches, its two load entry points, its read accessors    *)
(* and the parsing of one raw market definition into an Instrument.        *)
(***************************************************************************)
EXTENDS Integers, Sequences, FiniteSets, TLC

(***************************************************************************)
(* Python values.  An optional value (None or a value) is the empty set or *)
(* a singleton.  A str that the code takes apart is a sequence of          *)
(* one-character strings.  A number of the raw exchange data is the        *)
(* decimal literal m * 10^-e it was written as: an int when e = 0, a       *)
(* float otherwise.                                                        *)
(***************************************************************************)
MaxClock == 2
MaxPricePrecision == 7
NumTasks == 1

None == {}
Some(v) == {v}
The(o) == CHOOSE v \in o : TRUE

Num(m, e) == [m |-> m, e |-> e]
IsInt(x) == x.e = 0

DigitChar == <<"0", "1", "2", "3", "4", "5", "6", "7", "8", "9">>

RECURSIVE NatDigits(_)
NatDigits(n) ==
    IF n < 10 THEN <<DigitChar[n + 1]>>
    ELSE Append(NatDigits(n \div 10), DigitChar[(n % 10) + 1])

RECURSIVE Zeros(_)
Zeros(n) == IF n <= 0 THEN <<>> ELSE <<"0">> \o Zeros(n - 1)

RECURSIVE Pow10(_)
Pow10(n) == IF n = 0 THEN 1 ELSE 10 * Pow10(n - 1)

Reverse(s) == [i \in 1..Len(s) |-> s[Len(s) + 1 - i]]

(***************************************************************************)
(* IEEE-754 binary64 arithmetic, bit by bit.  A float is its significand   *)
(* (bits, most significant first) and the exponent E of its last bit:      *)
(* value = significand / 2^E.  The long operations split their operand in  *)
(* halves, so that their depth is the logarithm of its length.             *)
(***************************************************************************)
DoubleMantissaBits == 53

\* the next n >= 1 quotient bits of r / D (0 <= r < D) and the remainder left
RECURSIVE FracBits(_, _, _)
FracBits(r, D, n) ==
    IF n = 1
    THEN LET b == IF 2 * r >= D THEN 1 ELSE 0
         IN  [bits |-> <<b>>, rem |-> 2 * r - b * D]
    ELSE LET front == FracBits(r, D, n \div 2)
             back == FracBits(front.rem, D, n - n \div 2)
         IN  [bits |-> front.bits \o back.bits, rem |-> back.rem]

\* the zero bits of r / D before its first one bit, and the remainder there
RECURSIVE LeadingZeros(_, _)
LeadingZeros(r, D) ==
    IF 2 * r >= D THEN [z |-> 0, rem |-> r]
    ELSE LET rest == LeadingZeros(2 * r, D)
         IN  [z |-> rest.z + 1, rem |-> rest.rem]

\* bits (most significant first) plus one
IncBits(bs) ==
    IF \A i \in 1..Len(bs) : bs[i] = 1
    THEN <<1>> \o [i \in 1..Len(bs) |-> 0]
    ELSE LET j == CHOOSE k \in 1..Len(bs) :
                      bs[k] = 0 /\ \A i \in (k + 1)..Len(bs) : bs[i] = 1
         IN  [i \in 1..Len(bs) |-> IF i < j THEN bs[i] ELSE IF i = j THEN 1 ELSE 0]

\* 1.0 / D for an int D >= 1 that a float holds exactly: the quotient
\* rounded to nearest, ties to even, at 53 significant bits
FloatOneOver(D) ==
    IF D = 1
    THEN [mant |-> <<1>> \o [i \in 1..(DoubleMantissaBits - 1) |-> 0],
          exp |-> DoubleMantissaBits - 1]
    ELSE LET lz == LeadingZeros(1, D)
             q == FracBits(lz.rem, D, DoubleMantissaBits)
             guard == 2 * q.rem >= D
             sticky == 2 * q.rem - (IF guard THEN D ELSE 0) # 0
             odd == q.bits[DoubleMantissaBits] = 1
         IN  [mant |-> IF guard /\ (sticky \/ odd) THEN IncBits(q.bits) ELSE q.bits,
              exp |-> lz.z + DoubleMantissaBits]

\* the bits (least significant first) of an int n >= 0
RECURSIVE NatBits(_)
NatBits(n) == IF n = 0 THEN <<>> ELSE <<n % 2>> \o NatBits(n \div 2)

\* bits (least significant first, at least one) times a small int c, plus
\* carry: as many product bits, and the carry out of them
RECURSIVE MulCarry(_, _, _)
MulCarry(bs, c, carry) ==
    IF Len(bs) = 1
    THEN LET t == bs[1] * c + carry
         IN  [bits |-> <<t % 2>>, carry |-> t \div 2]
    ELSE LET h == Len(bs) \div 2
             low == MulCarry(SubSeq(bs, 1, h), c, carry)
             high == MulCarry(SubSeq(bs, h + 1, Len(bs)), c, low.carry)
         IN  [bits |-> low.bits \o high.bits, carry |-> high.carry]

MulSmall(bs, c) ==
    LET prod == MulCarry(bs, c, 0) IN prod.bits \o NatBits(prod.carry)

\* the int that bits (least significant first) spell
RECURSIVE BitsValue(_)
BitsValue(bs) == IF bs = <<>> THEN 0 ELSE Head(bs) + 2 * BitsValue(Tail(bs))

\* x * 10^p with the fraction cut off instead of rounded
ScaledTruncate(x, p) ==
    LET prod == MulSmall(Reverse(x.mant), Pow10(p))
    IN  BitsValue(SubSeq(prod, x.exp + 1, Len(prod)))

\* round(x * 10^p): the exact binary value of x scaled by 10^p, rounded to
\* the nearest int, ties to even (what the 'f' presentation type prints)
ScaledRound(x, p) ==
    LET prod == MulSmall(Reverse(x.mant), Pow10(p))
        n == Len(prod)
        whole == BitsValue(SubSeq(prod, x.exp + 1, n))
        guard == x.exp >= 1 /\ x.exp <= n /\ prod[x.exp] = 1
        sticky == \E i \in 1..(x.exp - 1) : i <= n /\ prod[i] = 1
    IN  IF guard /\ (sticky \/ whole % 2 = 1) THEN whole + 1 ELSE whole

\* the digits of n * 10^-p in fixed-point notation with p fractional digits
FixedPoint(n, p) ==
    LET ds == NatDigits(n)
        padded == Zeros(p + 1 - Len(ds)) \o ds
        k == Len(padded) - p
    IN  IF p = 0 THEN padded
        ELSE SubSeq(padded, 1, k) \o <<".">> \o SubSeq(padded, k + 1, Len(padded))

\* f"{x:.{p}f}" for a float x
FormatF(x, p) == FixedPoint(ScaledRound(x, p), p)

(***************************************************************************)
(* str(float), str.partition, str.rstrip and decimal.Decimal.              *)
(***************************************************************************)
\* the shortest decimal literal of a number: no trailing fractional zeros
RECURSIVE Normalize(_)
Normalize(v) ==
    IF v.e > 0 /\ v.m % 10 = 0 THEN Normalize(Num(v.m \div 10, v.e - 1)) ELSE v

\* str(v) for a float v: repr's shortest round-tripping digits, in fixed
\* notation from 1e-4 up and in scientific notation below
StrFloat(v) ==
    LET nv == Normalize(v)
        ds == NatDigits(nv.m)
        X == Len(ds) - 1 - nv.e
        ex == NatDigits(0 - X)
    IN  IF nv.m = 0 THEN <<"0", ".", "0">>
        ELSE IF X < 0 - 4
        THEN <<ds[1]>>
             \o (IF Len(ds) > 1 THEN <<".">> \o SubSeq(ds, 2, Len(ds)) ELSE <<>>)
             \o <<"e", "-">> \o Zeros(2 - Len(ex)) \o ex
        ELSE IF nv.e = 0 THEN ds \o <<".", "0">>
        ELSE FixedPoint(nv.m, nv.e)

\* s.partition('.')[2]
AfterDot(s) ==
    IF \E i \in 1..Len(s) : s[i] = "."
    THEN LET i == CHOOSE j \in 1..Len(s) :
                      s[j] = "." /\ \A k \in 1..(j - 1) : s[k] # "."
         IN  SubSeq(s, i + 1, Len(s))
    ELSE <<>>

\* s.rstrip('0')
RECURSIVE RStripZeros(_)
RStripZeros(s) ==
    IF s # <<>> /\ s[Len(s)] = "0" THEN RStripZeros(SubSeq(s, 1, Len(s) - 1)) ELSE s

RECURSIVE Pow5(_)
Pow5(n) == IF n = 0 THEN 1 ELSE 5 * Pow5(n - 1)

\* the int that a sequence of digit characters spells
RECURSIVE DigitsValue(_)
DigitsValue(s) ==
    IF s = <<>> THEN 0
    ELSE 10 * DigitsValue(SubSeq(s, 1, Len(s) - 1))
         + (CHOOSE d \in 0..9 : DigitChar[d + 1] = s[Len(s)])

\* A Decimal is m * 10^-e, kept with its e fractional digits.  kind "exact":
\* that value; kind "binary64": the full binary expansion of the float
\* nearest to it (what Decimal(float) holds when the float is inexact).
Dec(m, e) == [kind |-> "exact", m |-> m, e |-> e]

\* Decimal(s) for the str s of a fixed-point literal
DecimalFromStr(s) ==
    Dec(DigitsValue(SelectSeq(s, LAMBDA c : c # ".")), Len(AfterDot(s)))

\* Decimal(v) for a raw int or float v
DecimalFromNum(v) ==
    LET nv == Normalize(v)
    IN  IF nv.m % Pow5(nv.e) = 0 THEN Dec(nv.m, nv.e)
        ELSE [kind |-> "binary64", m |-> nv.m, e |-> nv.e]

\* float(d) for a Decimal d: the float nearest to it
DecimalToFloat(d) == Num(d.m, d.e)

\* str(d) for an exact Decimal
DecimalStr(d) == FixedPoint(d.m, d.e)

(***************************************************************************)
(* Collaborators of the provider that live in other modules of the         *)
(* package: the currency table, the value objects and the enum parser.     *)
(***************************************************************************)
DECIMAL_PLACES == 2
SIGNIFICANT_DIGITS == 3
TICK_SIZE == 4

CurrencyRec(code, precision, currency_type) ==
    [code |-> code, precision |-> precision, currency_type |-> currency_type]

\* Currency.from_str_c: the package's table of well-known currencies
CanonicalCurrencies ==
    [c \in {"BTC", "USDT", "USD"} |->
        IF c = "USD" THEN CurrencyRec(c, 2, "FIAT") ELSE CurrencyRec(c, 8, "CRYPTO")]

from_str_c(code) ==
    IF code \in DOMAIN CanonicalCurrencies THEN Some(CanonicalCurrencies[code]) ELSE None

\* Currency.is_fiat_c
is_fiat_c(code) == code \in {"USD", "EUR", "GBP", "JPY", "AUD"}

\* Quantity(value, precision), Price(value, precision), Money(value, currency):
\* value objects that keep what they were built from.  Quantity(q, precision)
\* of a Quantity q re-wraps q's value.
Quantity(value, precision) ==
    [value |-> IF "precision" \in DOMAIN value THEN value.value ELSE value,
     precision |-> precision]
Price(value, precision) == [value |-> value, precision |-> precision]
Money(value, currency) == [value |-> value, currency |-> currency]

\* str.upper on the strings the exchange data carries
Upper(s) ==
    CASE s \in {"spot", "Spot", "SPOT"} -> "SPOT"
      [] s \in {"swap", "SWAP"} -> "SWAP"
      [] s \in {"future", "FUTURE"} -> "FUTURE"
      [] s \in {"binance", "Binance", "BINANCE"} -> "BINANCE"
      [] OTHER -> s

\* AssetTypeParser.from_str
AssetTypeFromStr(s) ==
    IF s \in {"SPOT", "SWAP", "FUTURE", "FORWARD", "CFD", "OPTION"} THEN s ELSE "UNDEFINED"

(***************************************************************************)
(* CCXTInstrumentProvider: precision resolution.                           *)
(***************************************************************************)
Raised(error) == [ok |-> FALSE, error |-> error]
Returned(value) == [ok |-> TRUE, value |-> value]

\* len(str(tick_size).partition('.')[2].rstrip('0'))
_tick_size_to_precision(tick_size) ==
    Len(RStripZeros(AfterDot(StrFloat(tick_size))))

\* value is an optional raw number; the parameter is a C double, so None does
\* not convert.  A mode other than 2 and 4 falls off the end of the function,
\* which for a C int return type returns 0 with no exception set.
_get_precision(value, mode) ==
    IF value = None THEN Raised("TypeError")
    ELSE IF mode = DECIMAL_PLACES
    THEN Returned(The(value).m \div Pow10(The(value).e))
    ELSE IF mode = TICK_SIZE
    THEN Returned(_tick_size_to_precision(The(value)))
    ELSE Returned(0)

_parse_currency_type(code) == IF is_fiat_c(code) THEN "FIAT" ELSE "CRYPTO"

(***************************************************************************)
(* CCXTInstrumentProvider._parse_instrument.  values is one raw market     *)
(* definition:                                                             *)
(*   [precision |-> [price, amount], limits |-> [amount |-> [max, min],    *)
(*    cost |-> [max, min]], type, base, quote, info |-> [lotSize],         *)
(*    maker, taker]                                                        *)
(* with every field but quote optional.  In DECIMAL_PLACES mode the amount *)
(* precision, when given, is an int.  The result is the Instrument, or the *)
(* exception that the first failing statement raises.                      *)
(***************************************************************************)
Symbol(code, venue) == [code |-> code, venue |-> venue]

\* line 168: Decimal(f"{1.0 / 10 ** price_precision:.{price_precision}f}"),
\* tabulated over the price precisions of the exchange data
DecimalPlacesTickSize(price_precision) ==
    DecimalFromStr(FormatF(FloatOneOver(Pow10(price_precision)), price_precision))

TickSizes == [p \in 0..MaxPricePrecision |-> DecimalPlacesTickSize(p)]

\* lines 164-179: price_precision, size_precision and tick_size
ParsePrecisions(precisions, mode) ==
    IF mode = DECIMAL_PLACES
    THEN IF precisions.price = None THEN Raised("TypeError")
         ELSE IF ~IsInt(The(precisions.price)) THEN Raised("ValueError")
         ELSE LET price_precision == The(precisions.price).m
              IN  Returned(
                    [price_precision |-> price_precision,
                     size_precision |-> IF precisions.amount = None THEN 8
                                        ELSE The(precisions.amount).m,
                     tick_size |-> TickSizes[price_precision]])
    ELSE IF mode = TICK_SIZE
    THEN IF precisions.price = None THEN Raised("TypeError")
         ELSE LET tick_size == DecimalFromNum(The(precisions.price))
              IN  Returned(
                    [price_precision |-> _tick_size_to_precision(DecimalToFloat(tick_size)),
                     size_precision |-> _tick_size_to_precision(
                         IF precisions.amount = None THEN Num(0, 0)
                         ELSE The(precisions.amount)),
                     tick_size |-> tick_size])
    ELSE Raised("RuntimeError")

\* lines 187-195: Currency.from_str_c first, then the provider's own cache
LookupCurrency(code, curs) ==
    IF from_str_c(code) # None THEN Returned(from_str_c(code))
    ELSE IF code \in DOMAIN curs THEN Returned(Some(curs[code]))
    ELSE Raised("KeyError")

ParseBaseCurrency(values, curs) ==
    IF values.base = None THEN Returned(None) ELSE LookupCurrency(The(values.base), curs)

\* a fallback that prefers min_quantity to the venue's lotSize
ParseLotSizeMinFirst(values, min_quantity, size_precision) ==
    IF min_quantity # None THEN Quantity(The(min_quantity), size_precision)
    ELSE IF values.info.lotSize # None THEN Quantity(The(values.info.lotSize), 0)
    ELSE Quantity(Num(1, 0), 0)

\* lines 205-211
ParseLotSize(values, min_quantity, size_precision) ==
    IF values.info.lotSize # None THEN Quantity(The(values.info.lotSize), 0)
    ELSE IF min_quantity # None THEN Quantity(The(min_quantity), size_precision)
    ELSE Quantity(Num(1, 0), 0)

\* a price limit read from a limits.price block, which the markets lack
ParsePriceLimitNoCost(limit, price_precision) == None

\* lines 221-227: max_price and min_price, each from its cost limit
ParsePriceLimit(limit, price_precision) ==
    IF limit = None THEN None ELSE Some(Price(The(limit), price_precision))

\* lines 197-268, once the precisions and both currencies are resolved
BuildInstrument(symbol, values, now, prec, base_currency, quote_currency, min_quantity) ==
    [symbol |-> symbol,
     asset_class |-> "CRYPTO",
     asset_type |-> IF values.type = None THEN "UNDEFINED"
                    ELSE AssetTypeFromStr(Upper(The(values.type))),
     base_currency |-> base_currency,
     quote_currency |-> quote_currency,
     settlement_currency |-> quote_currency,
     is_inverse |-> FALSE,
     price_precision |-> prec.price_precision,
     size_precision |-> prec.size_precision,
     tick_size |-> prec.tick_size,
     multiplier |-> Dec(1, 0),
     leverage |-> Dec(1, 0),
     lot_size |-> ParseLotSize(values, min_quantity, prec.size_precision),
     max_quantity |-> IF values.limits.amount.max = None THEN None
                      ELSE Some(Quantity(The(values.limits.amount.max), prec.size_precision)),
     min_quantity |-> min_quantity,
     max_notional |-> IF values.limits.cost.max = None THEN None
                      ELSE Some(Money(The(values.limits.cost.max), quote_currency)),
     min_notional |-> IF values.limits.cost.min = None THEN None
                      ELSE Some(Money(The(values.limits.cost.min), quote_currency)),
     max_price |-> ParsePriceLimit(values.limits.cost.max, prec.price_precision),
     min_price |-> ParsePriceLimit(values.limits.cost.min, prec.price_precision),
     margin_init |-> Dec(0, 0),
     margin_maint |-> Dec(0, 0),
     maker_fee |-> IF values.maker = None THEN Dec(0, 0)
                   ELSE DecimalFromNum(The(values.maker)),
     taker_fee |-> IF values.taker = None THEN Dec(0, 0)
                   ELSE DecimalFromNum(The(values.taker)),
     financing |-> <<>>,
     timestamp |-> now,
     info |-> values]

\* lines 201-203
ParseMinQuantity(values, size_precision) ==
    IF values.limits.amount.min = None THEN None
    ELSE Some(Quantity(The(values.limits.amount.min), size_precision))

\* the statements of _parse_instrument in order: the first that raises ends it
ParseSteps(symbol, values, now, prec, base, quote) ==
    IF ~prec.ok THEN prec
    ELSE IF ~base.ok THEN base
    ELSE IF ~quote.ok THEN quote
    ELSE Returned(
             BuildInstrument(symbol, values, now, prec.value, base.value, The(quote.value),
                             ParseMinQuantity(values, prec.value.size_precision)))

_parse_instrument(symbol, values, mode, curs, now) ==
    ParseSteps(symbol, values, now,
               ParsePrecisions(values.precision, mode),
               ParseBaseCurrency(values, curs),
               LookupCurrency(values.quote, curs))

(***************************************************************************)
(* The caches and the load.  A dict is a function from its keys; the       *)
(* exchange data (client.currencies, client.markets) are dicts in          *)
(* insertion order: sequences of [code, values] items with distinct codes. *)
(***************************************************************************)
EmptyDict == <<>>

Put(d, k, v) == [c \in DOMAIN d \cup {k} |-> IF c = k THEN v ELSE d[c]]

Remove(d, k) ==
    IF DOMAIN d \ {k} = {} THEN EmptyDict ELSE [c \in DOMAIN d \ {k} |-> d[c]]

\* dict.get
Get(d, k) == IF k \in DOMAIN d THEN Some(d[k]) ELSE None

Item(code, values) == [code |-> code, values |-> values]

\* lines 141-148: one currency is rebuilt from its resolved precision
CurrencyStep(curs, code, precision) ==
    IF ~precision.ok
    THEN [ok |-> FALSE, error |-> precision.error, currencies |-> curs, upserted |-> 0]
    ELSE [ok |-> TRUE, error |-> "",
          currencies |-> Put(curs, code,
                             CurrencyRec(code, precision.value, _parse_currency_type(code))),
          upserted |-> 1]

\* lines 135-148: every currency of the client is rebuilt and upserted, in
\* order, until one fails
RECURSIVE _load_currencies(_, _, _)
Upserted(rest) == [rest EXCEPT !.upserted = @ + 1]

CurrenciesFrom(step, items, mode) ==
    IF ~step.ok THEN step ELSE Upserted(_load_currencies(step.currencies, items, mode))

_load_currencies(curs, items, mode) ==
    IF items = <<>> THEN [ok |-> TRUE, error |-> "", currencies |-> curs, upserted |-> 0]
    ELSE CurrenciesFrom(
             CurrencyStep(curs, Head(items).code,
                          _get_precision(Head(items).values.precision, mode)),
             Tail(items), mode)

\* lines 127-131: every market of the client is parsed and upserted, in
\* order, until one fails; each parse reads the clock, which then advances
RECURSIVE UpsertInstruments(_, _, _, _, _, _)
Built(rest) == [rest EXCEPT !.built = @ + 1]

\* an upsert that keeps the instrument already cached under the code
UpsertParsedKeepingOld(ins, items, venue, mode, curs, now, parsed) ==
    IF ~parsed.ok
    THEN [ok |-> FALSE, error |-> parsed.error, instruments |-> ins, built |-> 0]
    ELSE Built(UpsertInstruments(IF Head(items).code \in DOMAIN ins THEN ins
                                 ELSE Put(ins, Head(items).code, parsed.value),
                                 Tail(items), venue, mode, curs, now + 1))

UpsertParsed(ins, items, venue, mode, curs, now, parsed) ==
    IF ~parsed.ok
    THEN [ok |-> FALSE, error |-> parsed.error, instruments |-> ins, built |-> 0]
    ELSE Built(UpsertInstruments(Put(ins, Head(items).code, parsed.value),
                                 Tail(items), venue, mode, curs, now + 1))

UpsertInstruments(ins, items, venue, mode, curs, now) ==
    IF items = <<>> THEN [ok |-> TRUE, error |-> "", instruments |-> ins, built |-> 0]
    ELSE UpsertParsed(ins, items, venue, mode, curs, now,
                      _parse_instrument(Symbol(Head(items).code, venue),
                                        Head(items).values, mode, curs, now))

\* line 133: the count is taken after the last upsert, so a pass that raised
\* leaves it as it was
Counted(pass, count) ==
    [ok |-> pass.ok, error |-> pass.error, instruments |-> pass.instruments,
     built |-> pass.built,
     count |-> IF pass.ok THEN Cardinality(DOMAIN pass.instruments) ELSE count]

\* a load that starts from an empty instrument map
LoadInstrumentsCleared(ins, count, items, venue, mode, curs, now) ==
    Counted(UpsertInstruments(EmptyDict, items, venue, mode, curs, now), count)

\* a load that restores the instrument map when an entry fails
LoadInstrumentsRolledBack(ins, count, items, venue, mode, curs, now) ==
    Counted([ok |-> UpsertInstruments(ins, items, venue, mode, curs, now).ok,
             error |-> UpsertInstruments(ins, items, venue, mode, curs, now).error,
             instruments |->
                 IF UpsertInstruments(ins, items, venue, mode, curs, now).ok
                 THEN UpsertInstruments(ins, items, venue, mode, curs, now).instruments
                 ELSE ins,
             built |-> UpsertInstruments(ins, items, venue, mode, curs, now).built], count)

\* lines 122-133
_load_instruments(ins, count, items, venue, mode, curs, now) ==
    Counted(UpsertInstruments(ins, items, venue, mode, curs, now), count)

\* line 51: Venue(client.name.upper())
Venue(name) == Upper(name)

\* what a load leaves when _load_currencies raised, and when it returned and
\* _load_instruments ran
CurrenciesRaised(prov, cur) ==
    [raised |-> TRUE, error |-> cur.error, stage |-> "currencies",
     upserted |-> cur.upserted, built |-> 0, _currencies |-> cur.currencies,
     _instruments |-> prov._instruments, count |-> prov.count]

InstrumentsRan(cur, ins) ==
    [raised |-> ~ins.ok, error |-> ins.error,
     stage |-> IF ins.ok THEN "done" ELSE "instruments",
     upserted |-> cur.upserted, built |-> ins.built,
     _currencies |-> cur.currencies, _instruments |-> ins.instruments, count |-> ins.count]

\* a load whose instruments are parsed with the currencies of before the load
LoadAllRestStaleCurrencies(prov, client, mode, name, now, cur) ==
    IF ~cur.ok THEN CurrenciesRaised(prov, cur)
    ELSE InstrumentsRan(cur, _load_instruments(prov._instruments, prov.count, client.markets,
                                               Venue(name), mode, prov._currencies, now))

\* lines 75-76: prov is the provider's [_currencies, _instruments, count],
\* client the client's fresh [currencies, markets], cur what line 75 returned
LoadAllRest(prov, client, mode, name, now, cur) ==
    IF ~cur.ok THEN CurrenciesRaised(prov, cur)
    ELSE InstrumentsRan(cur, _load_instruments(prov._instruments, prov.count, client.markets,
                                               Venue(name), mode, cur.currencies, now))

\* a blocking load that rebuilds the currency map from scratch
LoadAllFreshCurrencies(prov, client, mode, name, now) ==
    LoadAllRest(prov, client, mode, name, now,
                _load_currencies(EmptyDict, client.currencies, mode))

\* lines 74-76 once client.load_markets has returned
load_all(prov, client, mode, name, now) ==
    LoadAllRest(prov, client, mode, name, now,
                _load_currencies(prov._currencies, client.currencies, mode))

\* lines 67-68
LoadAllAsyncRest(prov, client, mode, name, now, cur) ==
    IF ~cur.ok THEN CurrenciesRaised(prov, cur)
    ELSE InstrumentsRan(cur, _load_instruments(prov._instruments, prov.count, client.markets,
                                               Venue(name), mode, cur.currencies, now))

\* a suspendable load that leaves the currencies as they were
LoadAllAsyncNoCurrencies(prov, client, mode, name, now) ==
    LoadAllAsyncRest(prov, client, mode, name, now,
                     [ok |-> TRUE, error |-> "", currencies |-> prov._currencies,
                      upserted |-> 0])

\* lines 66-68 once the awaited client.load_markets has completed
load_all_async(prov, client, mode, name, now) ==
    LoadAllAsyncRest(prov, client, mode, name, now,
                     _load_currencies(prov._currencies, client.currencies, mode))

\* a get_all that hands out the provider's own dict
GetAllAliased(ins) == [ref |-> "self", dict |-> EmptyDict]

\* lines 78-89: the dict the caller receives.  ref "copy": a new dict with
\* the same items; ref "self" would be the provider's own dict.
get_all(ins) == [ref |-> "copy", dict |-> ins]

\* lines 91-100 and 102-116
get(ins, symbol) == Get(ins, symbol.code)
currency(curs, code) == Get(curs, code)

(***************************************************************************)
(* The exchange data the model draws from.                                 *)
(***************************************************************************)
ClientName == "binance"
Tasks == 1..NumTasks
PrecisionModes == {DECIMAL_PLACES, SIGNIFICANT_DIGITS, TICK_SIZE}

Market(price, amount, amount_min, cost_min, cost_max, base, quote, lotSize) ==
    [precision |-> [price |-> price, amount |-> amount],
     limits |-> [amount |-> [max |-> None, min |-> amount_min],
                 cost |-> [max |-> cost_max, min |-> cost_min]],
     type |-> Some("spot"), base |-> base, quote |-> quote,
     info |-> [lotSize |-> lotSize], maker |-> Some(Num(1, 3)), taker |-> None]

\* what an exchange reports as a precision: a tick size in TICK_SIZE mode, a
\* number of digits otherwise
RawPrecisions(mode) ==
    IF mode = TICK_SIZE THEN {Num(1, 2), Num(1, 5)} ELSE {Num(2, 0), Num(6, 0)}

CoarsePrecision(mode) == IF mode = TICK_SIZE THEN Num(1, 2) ELSE Num(2, 0)
FinePrecision(mode) == IF mode = TICK_SIZE THEN Num(1, 5) ELSE Num(6, 0)

\* the markets of the exchange: BTC/USDT has well-known currencies, BTC/XYZ a
\* quote currency that only the exchange's own currencies can resolve, and
\* at times no price precision
MarketItems(mode) ==
    {Item("BTC/USDT",
          Market(Some(CoarsePrecision(mode)), Some(CoarsePrecision(mode)), Some(Num(1, 0)),
                 None, None, Some("BTC"), "USDT", None)),
     Item("BTC/XYZ",
          Market(Some(FinePrecision(mode)), None, None, Some(Num(10, 0)), None,
                 Some("BTC"), "XYZ", Some(Num(1, 3)))),
     Item("BTC/XYZ",
          Market(None, None, None, Some(Num(10, 0)), None,
                 Some("BTC"), "XYZ", Some(Num(1, 3))))}

\* the sequences over S with pairwise distinct codes
RECURSIVE DistinctSeqs(_)
DistinctSeqs(S) ==
    {<<>>} \cup UNION {{<<i>> \o rest : rest \in DistinctSeqs({j \in S : j.code # i.code})} :
                       i \in S}

CurrencyItems(mode) ==
    {Item("XYZ", [precision |-> Some(v)]) : v \in RawPrecisions(mode)}

\* the exchange lists XYZ or no currency at all; the precision of ABC is
\* missing when it lists that too
CurrencyLists(mode) ==
    {<<>>} \cup {<<i>> : i \in CurrencyItems(mode)}
    \cup {<<Item("XYZ", [precision |-> Some(CoarsePrecision(mode))]),
           Item("ABC", [precision |-> None])>>}

Sources(mode) ==
    {[currencies |-> c, markets |-> m] :
        c \in CurrencyLists(mode), m \in DistinctSeqs(MarketItems(mode))}

\* one market with every combination of the fields that the parse branches on
WidePrices(mode) ==
    {None, Some(Num(5, 1)), Some(Num(25, 6))}
    \cup (IF mode = TICK_SIZE THEN {Some(Num(1, e)) : e \in 0..MaxPricePrecision}
          ELSE {Some(Num(p, 0)) : p \in 0..MaxPricePrecision})

WideSources(mode) ==
    {[currencies |-> c,
      markets |-> <<Item("BTC/USDT",
                         Market(price, amount, amount_min, cost_min, cost_max,
                                base, quote, lotSize))>>] :
        c \in {<<>>, <<Item("XYZ", [precision |-> Some(CHOOSE v \in RawPrecisions(mode) : TRUE)])>>},
        price \in WidePrices(mode),
        amount \in {None, Some(Num(3, 0))},
        amount_min \in {None, Some(Num(5, 0))},
        cost_min \in {None, Some(Num(10, 0))},
        cost_max \in {None, Some(Num(9000, 0))},
        base \in {None, Some("BTC"), Some("XYZ")},
        quote \in {"USDT", "XYZ"},
        lotSize \in {None, Some(Num(1, 3))}}

(***************************************************************************)
(* The state: the client's attributes, the provider's attributes, the wall *)
(* clock, each caller task's position, the mapping a caller holds from     *)
(* get_all, and how the last call ended.                                   *)
(***************************************************************************)
VARIABLES precisionMode, currencies, markets, _currencies, _instruments, count,
          clock, pc, held, outcome

vars == <<precisionMode, currencies, markets, _currencies, _instruments, count,
          clock, pc, held, outcome>>

\* how a call ended: whether it raised and what, the statement it had reached
\* (stage), and how many currencies and instruments it had upserted by then
Outcome(op, stage, raised, error, upserted, built) ==
    [op |-> op, stage |-> stage, raised |-> raised, error |-> error,
     upserted |-> upserted, built |-> built]

\* lines 39-60, with load_all=False
Init ==
    /\ precisionMode \in PrecisionModes
    /\ currencies = <<>>
    /\ markets = <<>>
    /\ _currencies = EmptyDict
    /\ _instruments = EmptyDict
    /\ count = 0
    /\ clock = 0
    /\ pc = [t \in Tasks |-> "idle"]
    /\ held = [ref |-> "none", dict |-> EmptyDict]
    /\ outcome = Outcome("none", "done", FALSE, "", 0, 0)

Provider == [_currencies |-> _currencies, _instruments |-> _instruments, count |-> count]

\* the provider's attributes take what the body of a load left in done
Loaded(op, client, done) ==
    /\ currencies' = client.currencies
    /\ markets' = client.markets
    /\ _currencies' = done._currencies
    /\ _instruments' = done._instruments
    /\ count' = done.count
    /\ clock' = clock + done.built
    /\ outcome' = Outcome(op, done.stage, done.raised, done.error, done.upserted, done.built)

\* client.load_markets raised: the load ends there and nothing has changed
FetchFailed(op) ==
    /\ outcome' = Outcome(op, "fetch", TRUE, "NetworkError", 0, 0)
    /\ UNCHANGED <<currencies, markets, _currencies, _instruments, count, clock>>

\* lines 70-76: the blocking load, one step
LoadAll(S) ==
    /\ clock < MaxClock
    /\ \/ FetchFailed("load_all")
       \/ \E client \in S :
              Loaded("load_all", client,
                     load_all(Provider, client, precisionMode, ClientName, clock))
    /\ UNCHANGED <<precisionMode, pc, held>>

\* a suspendable load that empties the instrument map before its await
LoadAllAsyncStartClearing(t) ==
    /\ clock < MaxClock
    /\ pc[t] = "idle"
    /\ pc' = [pc EXCEPT ![t] = "fetching"]
    /\ _instruments' = EmptyDict
    /\ count' = 0
    /\ UNCHANGED <<precisionMode, currencies, markets, _currencies, clock, held, outcome>>

\* line 66: the suspendable load up to its await
LoadAllAsyncStart(t) ==
    /\ clock < MaxClock
    /\ pc[t] = "idle"
    /\ pc' = [pc EXCEPT ![t] = "fetching"]
    /\ UNCHANGED <<precisionMode, currencies, markets, _currencies, _instruments, count,
                   clock, held, outcome>>

\* lines 66-68: the fetch completes and the task runs to the end
LoadAllAsyncResume(t, S) ==
    /\ pc[t] = "fetching"
    /\ pc' = [pc EXCEPT ![t] = "idle"]
    /\ \/ FetchFailed("load_all_async")
       \/ \E client \in S :
              Loaded("load_all_async", client,
                     load_all_async(Provider, client, precisionMode, ClientName, clock))
    /\ UNCHANGED <<precisionMode, held>>

SourcesOf == [mode \in PrecisionModes |-> Sources(mode)]

Next ==
    \/ LoadAll(SourcesOf[precisionMode])
    \/ \E t \in Tasks : LoadAllAsyncStart(t)
    \/ \E t \in Tasks : LoadAllAsyncResume(t, SourcesOf[precisionMode])

Spec == Init /\ [][Next]_vars

\* lines 78-89: a caller takes the mapping
GetAll ==
    /\ held' = get_all(_instruments)
    /\ outcome' = Outcome("get_all", "done", FALSE, "", 0, 0)
    /\ UNCHANGED <<precisionMode, currencies, markets, _currencies, _instruments, count,
                   clock, pc>>

\* the dict that the caller's reference leads to
HeldDict == IF held.ref = "self" THEN _instruments ELSE held.dict

\* an Instrument of the caller's own making
CallerInstrument ==
    BuildInstrument(Symbol("NEW/USDT", "CALLER"),
                    Market(Some(Num(1, 0)), None, None, None, None, None, "USDT", None),
                    0, [price_precision |-> 1, size_precision |-> 8, tick_size |-> Dec(1, 1)],
                    None, CanonicalCurrencies["USDT"], None)

\* what a caller can do to a dict: delete a key, or set a key (new or not)
Mutations(d) ==
    {Remove(d, k) : k \in DOMAIN d}
    \cup {Put(d, k, CallerInstrument) : k \in DOMAIN d \cup {"NEW/USDT"}}

\* the caller changes the mapping it took
CallerMutates ==
    /\ held.ref # "none"
    /\ \E d \in Mutations(HeldDict) :
           IF held.ref = "self"
           THEN _instruments' = d /\ held' = held
           ELSE held' = [held EXCEPT !.dict = d] /\ _instruments' = _instruments
    /\ outcome' = Outcome("mutate", "done", FALSE, "", 0, 0)
    /\ UNCHANGED <<precisionMode, currencies, markets, _currencies, count, clock, pc>>

\* the exchange as the callers of get_all see it: XYZ is listed
ViewSources(mode) ==
    {src \in Sources(mode) :
        src.currencies = <<Item("XYZ", [precision |-> Some(CoarsePrecision(mode))])>>}

ViewSourcesOf == [mode \in PrecisionModes |-> ViewSources(mode)]

NextViews ==
    \/ LoadAll(ViewSourcesOf[precisionMode])
    \/ GetAll
    \/ CallerMutates

SpecViews == Init /\ [][NextViews]_vars

\* one load of one market, over every combination of its fields
WideSourcesOf == [mode \in PrecisionModes |-> WideSources(mode)]

ParseOnce ==
    /\ outcome.op = "none"
    /\ LoadAll(WideSourcesOf[precisionMode])

SpecParse == Init /\ [][ParseOnce]_vars

(***************************************************************************)
(* Properties of reloading.                                                *)
(***************************************************************************)
IsLoad(o) == o.op \in {"load_all", "load_all_async"}

Codes(items) == {items[i].code : i \in 1..Len(items)}
SymbolOf(code) == Symbol(code, Venue(ClientName))

\* the timestamp of the i-th instrument built by the load that just ended
BuiltAt(i) == clock - outcome.built + i - 1

\* C1: no step evicts: every symbol code for which get() returns an
\* instrument before a step still has one after it, whatever the market set
\* of a load in between contains.
C1_NoEviction ==
    [][\A code \in DOMAIN _instruments :
           get(_instruments, SymbolOf(code)) # None
               => get(_instruments', SymbolOf(code)) # None]_vars

\* a load has succeeded and the cache holds a code its market set lacks
C1_Witness ==
    /\ IsLoad(outcome) /\ outcome.stage = "done"
    /\ \E code \in DOMAIN _instruments : code \notin Codes(markets)

\* C2: after a successful load, get() returns for every code of the market
\* set the instrument that this load built from the code's market definition.
C2_OverwriteOnReload ==
    IsLoad(outcome) /\ outcome.stage = "done" =>
        \A i \in 1..Len(markets) :
            get(_instruments, SymbolOf(markets[i].code)) =
                Some(_parse_instrument(SymbolOf(markets[i].code), markets[i].values,
                                       precisionMode, _currencies, BuiltAt(i)).value)

\* a successful load of one market has replaced the only instrument cached:
\* two instruments were built and one code is cached
C2_Witness ==
    /\ IsLoad(outcome) /\ outcome.stage = "done"
    /\ Len(markets) = 1 /\ clock >= 2
    /\ DOMAIN _instruments = Codes(markets)

\* C3: when the k-th market entry fails to parse, the load raises, the
\* instruments of entries 1..k-1 built in this pass are what get() returns,
\* and no entry from k on was processed: what is cached under its code, if
\* anything, is older than this pass.
C3_NonAtomicFailedLoad ==
    IsLoad(outcome) /\ outcome.stage = "instruments" =>
        LET k == outcome.built + 1
        IN  /\ outcome.raised
            /\ k <= Len(markets)
            /\ ~_parse_instrument(SymbolOf(markets[k].code), markets[k].values,
                                  precisionMode, _currencies, clock).ok
            /\ \A i \in 1..(k - 1) :
                   get(_instruments, SymbolOf(markets[i].code)) =
                       Some(_parse_instrument(SymbolOf(markets[i].code), markets[i].values,
                                              precisionMode, _currencies, BuiltAt(i)).value)
            /\ \A i \in k..Len(markets) :
                   \A inst \in get(_instruments, SymbolOf(markets[i].code)) :
                       inst.timestamp < BuiltAt(1)

\* a load has raised at its second entry, after upserting the first
C3_Witness ==
    /\ IsLoad(outcome) /\ outcome.stage = "instruments"
    /\ outcome.built = 1 /\ Len(markets) = 2

\* C4 as stated: after a load that raised, every symbol code and currency
\* code cached before it leads to the same record as before.
C4_FailedLoadLeavesCacheIntact ==
    [][IsLoad(outcome') /\ outcome'.raised =>
           /\ \A code \in DOMAIN _instruments :
                  get(_instruments', SymbolOf(code)) = get(_instruments, SymbolOf(code))
           /\ \A code \in DOMAIN _currencies :
                  currency(_currencies', code) = currency(_currencies, code)]_vars

\* C4 amended: after a load that raised, every symbol code and currency
\* code cached before it is still cached, with the same record as before
\* unless the aborted pass had upserted that code by then (a currency listed
\* before the failing one, a market entry before the failing one).
C4_FailedLoadKeepsUntouched ==
    [][IsLoad(outcome') /\ outcome'.raised =>
           /\ \A code \in DOMAIN _instruments :
                  /\ get(_instruments', SymbolOf(code)) # None
                  /\ code \notin Codes(SubSeq(markets', 1, outcome'.built))
                         => get(_instruments', SymbolOf(code))
                                = get(_instruments, SymbolOf(code))
           /\ \A code \in DOMAIN _currencies :
                  /\ currency(_currencies', code) # None
                  /\ code \notin Codes(SubSeq(currencies', 1, outcome'.upserted))
                         => currency(_currencies', code) = currency(_currencies, code)]_vars

\* a load has raised in its instrument pass with a currency cached that the
\* exchange no longer lists and an instrument cached that the pass never reached
C4_Witness ==
    /\ IsLoad(outcome) /\ outcome.stage = "instruments"
    /\ \E code \in DOMAIN _currencies : code \notin Codes(currencies)
    /\ \E code \in DOMAIN _instruments :
           code \notin Codes(SubSeq(markets, 1, outcome.built))

\* what a load that has just ended left, against what body would have left
SameAsBody(done) ==
    done = [raised |-> outcome'.raised, error |-> outcome'.error, stage |-> outcome'.stage,
            upserted |-> outcome'.upserted, built |-> outcome'.built,
            _currencies |-> _currencies', _instruments |-> _instruments', count |-> count']

Fetched == [currencies |-> currencies', markets |-> markets']

\* the step ends a suspendable load; the step is a blocking load
Resumed == \E t \in Tasks : pc[t] = "fetching" /\ pc'[t] = "idle"
Blocked == pc' = pc /\ outcome'.op = "load_all"

\* C10: a load through either entry point, run from its fetch to its end,
\* leaves the currency map, the instrument map, the count and the error (if
\* any) that the other entry point leaves from the same provider state and
\* the same exchange answer; a failed fetch leaves both unchanged.
C10_EntryPointsEquivalent ==
    [][/\ Resumed /\ outcome'.stage # "fetch"
           => SameAsBody(load_all(Provider, Fetched, precisionMode, ClientName, clock))
       /\ Blocked /\ outcome'.stage # "fetch"
           => SameAsBody(load_all_async(Provider, Fetched, precisionMode, ClientName, clock))
       /\ (Resumed \/ Blocked) /\ outcome'.stage = "fetch"
           => UNCHANGED <<_currencies, _instruments, count>>]_vars

\* the suspendable load has raised after upserting part of the market set
C10_Witness ==
    /\ outcome.op = "load_all_async" /\ outcome.stage = "instruments"
    /\ outcome.built >= 1 /\ outcome.upserted >= 1

(***************************************************************************)
(* Properties of the accessors and of the parse.                           *)
(***************************************************************************)
\* C5: a caller's adding, removing or replacing keys in the mapping it took
\* from get_all() changes nothing that get() or get_all() return afterwards,
\* and a load changes no mapping that get_all() returned before it.
C5_GetAllDefensiveCopy ==
    [][/\ outcome'.op = "mutate" =>
              /\ \A code \in DOMAIN _instruments \cup DOMAIN _instruments' \cup {"NEW/USDT"} :
                     get(_instruments', SymbolOf(code)) = get(_instruments, SymbolOf(code))
              /\ _instruments' = _instruments
       /\ IsLoad(outcome') /\ held.ref # "none" => HeldDict' = HeldDict]_vars

\* a caller holds a mapping to which it added a key, and a load has since
\* upserted an instrument into the cache
C5_Witness ==
    /\ IsLoad(outcome) /\ outcome.built >= 1
    /\ held.ref # "none" /\ "NEW/USDT" \in DOMAIN HeldDict

\* C6, for an exchange that lists a currency: in a precision mode other than
\* DECIMAL_PLACES and TICK_SIZE, after a load that got its data, the
\* precision of no currency of the exchange resolves, the load has raised,
\* and the currency cache holds no Currency.
C6_UnsupportedModeAlwaysFails ==
    precisionMode \notin {DECIMAL_PLACES, TICK_SIZE}
    /\ IsLoad(outcome) /\ outcome.stage # "fetch" /\ Len(currencies) >= 1 =>
        /\ \A i \in 1..Len(currencies) :
               ~_get_precision(currencies[i].values.precision, precisionMode).ok
        /\ outcome.raised
        /\ _currencies = EmptyDict

\* the one market of a parse, and whether its precisions resolve
ParsedValues == markets[1].values
PrecisionsOk == ParsePrecisions(ParsedValues.precision, precisionMode).ok
Unresolved(code) == ~LookupCurrency(code, _currencies).ok

\* C7: when the precisions of a market resolve, an unresolved quote currency
\* makes the load raise, and a named base currency that neither lookup
\* resolves (the quote being resolved) does not: the instrument is cached
\* with no base currency.
C7_MissingBaseNonFatal ==
    IsLoad(outcome) /\ outcome.stage \in {"done", "instruments"} /\ Len(markets) = 1
    /\ PrecisionsOk =>
        /\ Unresolved(ParsedValues.quote) => outcome.raised
        /\ (/\ ParsedValues.base # None
            /\ Unresolved(The(ParsedValues.base))
            /\ ~Unresolved(ParsedValues.quote))
               => /\ ~outcome.raised
                  /\ \A inst \in get(_instruments, SymbolOf(markets[1].code)) :
                         inst.base_currency = None

\* C8: the lot size of every cached instrument is the lotSize of its market
\* when there is one; else the minimum amount of its market at
\* size_precision, which is its min_quantity, when there is one; else 1.
C8_LotSizeFallbackOrder ==
    \A code \in DOMAIN _instruments :
        LET inst == _instruments[code]
            lotSize == inst.info.info.lotSize
            amount_min == inst.info.limits.amount.min
        IN  /\ lotSize # None => inst.lot_size = Quantity(The(lotSize), 0)
            /\ lotSize = None /\ amount_min # None
                   => /\ inst.lot_size = Quantity(The(amount_min), inst.size_precision)
                      /\ inst.min_quantity = Some(inst.lot_size)
            /\ lotSize = None /\ amount_min = None => inst.lot_size = Quantity(Num(1, 0), 0)

\* an instrument is cached whose market has both a lotSize and a minimum amount
C8_Witness ==
    \E code \in DOMAIN _instruments :
        /\ _instruments[code].info.info.lotSize # None
        /\ _instruments[code].info.limits.amount.min # None

\* the raw price precision of an instrument's market
RawPricePrecision(inst) == The(inst.info.precision.price).m

InFlight == \E t \in Tasks : pc[t] = "fetching"

\* the step starts a load: a task enters load_all_async, or load_all runs
Starts == (\E t \in Tasks : pc[t] = "idle" /\ pc'[t] = "fetching") \/ Blocked

\* C11: while a load is in flight, between the start of its fetch and its
\* completion, no step starts another load through either entry point.
C11_LoadsMutuallyExclusive ==
    [][InFlight => ~Starts]_vars

\* the cost limits of an instrument's market
CostLimits(inst) == inst.info.limits.cost

\* C12: every cached instrument has max_price and max_notional exactly when
\* its market has limits.cost.max, both with that value: as a price at
\* price_precision and as money in the quote currency; likewise min_price
\* and min_notional with limits.cost.min.
C12_PriceBoundsMirrorCost ==
    \A code \in DOMAIN _instruments :
        LET inst == _instruments[code]
            cost == CostLimits(inst)
        IN  /\ cost.max = None => inst.max_price = None /\ inst.max_notional = None
            /\ cost.max # None =>
                   /\ inst.max_price = Some(Price(The(cost.max), inst.price_precision))
                   /\ inst.max_notional = Some(Money(The(cost.max), inst.quote_currency))
            /\ cost.min = None => inst.min_price = None /\ inst.min_notional = None
            /\ cost.min # None =>
                   /\ inst.min_price = Some(Price(The(cost.min), inst.price_precision))
                   /\ inst.min_notional = Some(Money(The(cost.min), inst.quote_currency))

\* an instrument is cached whose market has a maximum cost and no minimum cost
C12_Witness ==
    \E code \in DOMAIN _instruments :
        /\ CostLimits(_instruments[code]).max # None
        /\ CostLimits(_instruments[code]).min = None
        /\ _instruments[code].max_price # None

\* the step suspends a task in the fetch of load_all_async
Suspends == \E t \in Tasks : pc[t] = "idle" /\ pc'[t] = "fetching"

\* what get(), get_all() and currency() read
Cache == <<_currencies, _instruments, count>>

\* after the step the cache holds every entry of the load that the step
\* ended: each listed currency as this load rebuilt it, each market's
\* instrument as this load built it, and the count of the instruments
WholeLoadCached ==
    /\ \A i \in 1..Len(currencies') :
           currency(_currencies', currencies'[i].code) =
               Some(CurrencyRec(currencies'[i].code,
                                _get_precision(currencies'[i].values.precision,
                                               precisionMode).value,
                                _parse_currency_type(currencies'[i].code)))
    /\ \A i \in 1..Len(markets') :
           \A other \in {get(_instruments', SymbolOf(markets'[i].code))} :
               /\ other # None
               /\ \A inst \in other : inst.timestamp = clock + i - 1
    /\ count' = Cardinality(DOMAIN get_all(_instruments').dict)

\* C13: the step that suspends load_all_async in its fetch changes nothing
\* that get(), get_all() or currency() read, and the one step that follows
\* the fetch of a successful load leaves all of that load's entries and the
\* count in the cache: no state in between holds part of them.
C13_YieldsOnlyAtFetch ==
    [][/\ Suspends => UNCHANGED Cache
       /\ Resumed /\ ~outcome'.raised => WholeLoadCached]_vars

\* a suspendable load has succeeded with a currency and two markets
C13_Witness ==
    /\ outcome.op = "load_all_async" /\ outcome.stage = "done"
    /\ outcome.upserted >= 1 /\ outcome.built = 2

\* the Currency that this load builds for a code the exchange lists
ListedCurrency(code) ==
    LET i == CHOOSE j \in 1..Len(currencies) : currencies[j].code = code
    IN  CurrencyRec(code, _get_precision(currencies[i].values.precision, precisionMode).value,
                    _parse_currency_type(code))

\* C14: after a load, every instrument that the load built for a market
\* whose quote currency has no canonical currency and is listed by the
\* exchange carries, as quote_currency and as settlement_currency, the
\* Currency that this load built from the listed precision, which is the
\* record that currency() returns.
C14_CurrenciesBeforeInstruments ==
    IsLoad(outcome) /\ outcome.stage \in {"done", "instruments"} =>
        \A i \in 1..outcome.built :
            LET quote == markets[i].values.quote
            IN  from_str_c(quote) = None /\ quote \in Codes(currencies) =>
                    \A inst \in get(_instruments, SymbolOf(markets[i].code)) :
                        /\ inst.quote_currency = ListedCurrency(quote)
                        /\ inst.settlement_currency = ListedCurrency(quote)
                        /\ currency(_currencies, quote) = Some(inst.quote_currency)

\* a load has built an instrument whose quote currency the exchange lists,
\* after an earlier load had built instruments
C14_Witness ==
    /\ IsLoad(outcome) /\ outcome.built >= 1 /\ clock > outcome.built
    /\ \E i \in 1..outcome.built :
           /\ from_str_c(markets[i].values.quote) = None
           /\ markets[i].values.quote \in Codes(currencies)

\* C15: in every state in which no load is in flight (after construction and
\* after every load, whether it returned or raised) count is the number of
\* instruments in the mapping that get_all() returns.
C15_CountMatchesCache ==
    ~InFlight => count = Cardinality(DOMAIN get_all(_instruments).dict)

====
